---- MODULE Spec2Model ----
(***************************************************************************)
(* A model of leptos_form_tool's date control builder                      *)
(* (src/controls/date.rs) and of the flowbite form style                   *)
(* (src/styles/flowbite.rs).                                               *)
(*                                                                         *)
(* Four specifications share the module:                                   *)
(*   SpecBuilder  a chain of ControlBuilder<_, DateData, _> setter calls   *)
(*   SpecStyle    one control rendered by FbFormStyle, then driven by DOM  *)
(*                events and by changes of its validation signal           *)
(*   SpecGroup    a group of rendered children wrapped by                  *)
(*                FbFormStyle::group                                       *)
(*   SpecAttrs    style attributes attached to a control or group, which   *)
(*                is then rendered                                         *)
(***************************************************************************)
EXTENDS Integers, Sequences, FiniteSets, TLC

(* ------------------------------------------------------------------ *)
(* Bounds of the model                                                 *)
(* ------------------------------------------------------------------ *)

\* longest chain of setter calls on one builder
MaxCalls == 3

\* most DOM events dispatched to the rendered control
MaxEvents == 3

\* most controls composed into one group
MaxChildren == 2

\* most style attributes attached to one control
MaxAttrs == 3

(* ------------------------------------------------------------------ *)
(* Values                                                              *)
(* ------------------------------------------------------------------ *)

\* Option<T>: None is the empty tuple, Some(x) the one-element tuple
None == <<>>
Some(x) == <<x>>

\* MaybeSignal<T>: Static(value) or Dynamic(signal)
Static(x) == <<"Static", x>>
Dynamic(s) == <<"Dynamic", s>>

\* the strings a caller passes to the builder, and the signals it owns
Strs == {"2024-01-01", "2024-12-31"}
Sigs == {"sig1", "sig2"}

(* ------------------------------------------------------------------ *)
(* controls/date.rs: DateData and its builder                          *)
(* ------------------------------------------------------------------ *)

\* #[derive(Default)] DateData: String::default() and None everywhere
DateDataDefault ==
    [ name         |-> "",
      label        |-> None,
      show_buttons |-> None,
      show_today   |-> None,
      title        |-> None,
      format       |-> None,
      min          |-> None,
      max          |-> None ]

\* variant: named also writes the label
named_and_label(d, control_name) ==
    [d EXCEPT !.name = control_name, !.label = Some(control_name)]

named(d, control_name) == [d EXCEPT !.name = control_name]

labeled(d, label) == [d EXCEPT !.label = Some(label)]

title(d, t) == [d EXCEPT !.title = Some(t)]

\* show_today assigns show_today and then show_buttons (date.rs:81-82)
show_today(d, today) ==
    [d EXCEPT !.show_today = Some(Static(today)),
              !.show_buttons = Some(Static(today))]

show_buttons(d, b) == [d EXCEPT !.show_buttons = Some(Static(b))]

format(d, f) == [d EXCEPT !.format = Some(f)]

\* variant: min leaves a bound set by min_signal in place
min_static_only(d, m) ==
    IF d.min = None \/ d.min[1][1] = "Static"
    THEN [d EXCEPT !.min = Some(Static(m))]
    ELSE d

min(d, m) == [d EXCEPT !.min = Some(Static(m))]

min_signal(d, s) == [d EXCEPT !.min = Some(Dynamic(s))]

max(d, m) == [d EXCEPT !.max = Some(Static(m))]

max_signal(d, s) == [d EXCEPT !.max = Some(Dynamic(s))]

\* the setter a recorded call stands for
Apply(d, c) ==
    CASE c.op = "named"        -> named(d, c.arg)
      [] c.op = "labeled"      -> labeled(d, c.arg)
      [] c.op = "title"        -> title(d, c.arg)
      [] c.op = "show_today"   -> show_today(d, c.arg)
      [] c.op = "show_buttons" -> show_buttons(d, c.arg)
      [] c.op = "format"       -> format(d, c.arg)
      [] c.op = "min"          -> min(d, c.arg)
      [] c.op = "min_signal"   -> min_signal(d, c.arg)
      [] c.op = "max"          -> max(d, c.arg)
      [] c.op = "max_signal"   -> max_signal(d, c.arg)

RECURSIVE ApplyAll(_, _)
ApplyAll(d, cs) ==
    IF cs = <<>> THEN d ELSE ApplyAll(Apply(d, Head(cs)), Tail(cs))

(* ------------------------------------------------------------------ *)
(* controls: ValidationState and UpdateEvent                           *)
(* ------------------------------------------------------------------ *)

\* ValidationState: Valid, Pending or Invalid(message)
Valid == <<"Valid">>
Pending == <<"Pending">>
Invalid(m) == <<"Invalid", m>>

Msgs == {"required", "too long"}
ValidationStates == {Valid, Pending} \cup {Invalid(m) : m \in Msgs}

\* ValidationState::is_err
is_err(v) == v[1] = "Invalid"

\* ValidationState::take_msg: the message of an Invalid state
take_msg(v) == IF v[1] = "Invalid" THEN Some(v[2]) ELSE None

\* UpdateEvent, and the DOM event each variant is matched to
UpdateEvents == {"OnFocusout", "OnInput", "OnChange"}

(* ------------------------------------------------------------------ *)
(* styles/flowbite.rs: FbStyleAttr and FbFormStyle                     *)
(* ------------------------------------------------------------------ *)

Width(w) == <<"Width", w>>
Tooltip(t) == <<"Tooltip", t>>

\* let mut width = 12
DefaultWidth == 12

\* variant: the first Width of the list is kept
RECURSIVE FoldWidthFirst(_, _)
FoldWidthFirst(width, styles) ==
    IF styles = <<>> THEN width
    ELSE IF Head(styles)[1] = "Width" THEN Head(styles)[2]
    ELSE FoldWidthFirst(width, Tail(styles))

\* the fold of common_component's loop over the styling attributes
RECURSIVE FoldWidth(_, _)
FoldWidth(width, styles) ==
    IF styles = <<>> THEN width
    ELSE FoldWidth(IF Head(styles)[1] = "Width" THEN Head(styles)[2] ELSE width,
                   Tail(styles))

RECURSIVE FoldTooltip(_, _)
FoldTooltip(tooltip, styles) ==
    IF styles = <<>> THEN tooltip
    ELSE FoldTooltip(IF Head(styles)[1] = "Tooltip" THEN Some(Head(styles)[2])
                     ELSE tooltip,
                     Tail(styles))

\* the <div class=parent_class style:grid-column="span {width}" title=tooltip>
\* that wraps inner
common_component(styles, parent_class, inner) ==
    [inner EXCEPT !.container =
        Some([ class |-> parent_class,
               width |-> FoldWidth(DefaultWidth, styles),
               title |-> FoldTooltip(None, styles) ])]

DisplayKinds == {"spacer", "heading", "submit", "button", "output", "hidden"}
TextKinds == {"text_input", "text_area"}
ValueKinds == {"select", "stepper", "slider", "date"}
BoundKinds == TextKinds \cup ValueKinds \cup {"radio_buttons", "checkbox"}
Kinds == DisplayKinds \cup BoundKinds

\* the kinds whose data has a label field that the style reads
LabelKinds == BoundKinds

\* variant: date takes no validation signal
SignatureUnvalidatedDate(kind) ==
    CASE kind = "spacer" -> {}
      [] kind \in DisplayKinds \ {"spacer"} -> {"value_getter"}
      [] kind \in {"checkbox", "date"} -> {"value_getter", "value_setter"}
      [] OTHER -> {"value_getter", "value_setter", "validation_state"}

\* variant: hidden takes a value setter
SignatureBoundHidden(kind) ==
    CASE kind = "spacer" -> {}
      [] kind = "hidden" -> {"value_getter", "value_setter"}
      [] kind \in DisplayKinds \ {"spacer"} -> {"value_getter"}
      [] kind = "checkbox" -> {"value_getter", "value_setter"}
      [] OTHER -> {"value_getter", "value_setter", "validation_state"}

\* the binding parameters of each FormStyle operation of FbFormStyle
Signature(kind) ==
    CASE kind = "spacer" -> {}
      [] kind \in DisplayKinds \ {"spacer"} -> {"value_getter"}
      [] kind = "checkbox" -> {"value_getter", "value_setter"}
      [] OTHER -> {"value_getter", "value_setter", "validation_state"}

\* the kinds whose operation reads a validation signal
ValidatedKinds == {k \in Kinds : "validation_state" \in Signature(k)}

\* a DOM node before any closure of the view has run
Node(tag) ==
    [ tag            |-> tag,
      container      |-> None,
      children       |-> <<>>,
      hasLabel       |-> FALSE,
      labelClass     |-> "",
      labelText      |-> None,
      inputClass     |-> "",
      propValue      |-> None,
      propChecked    |-> FALSE,
      checkedOptions |-> {},
      text           |-> None,
      errShown       |-> FALSE,
      errText        |-> None ]

\* the options of a radio group or select: (display, value) pairs
Options == << <<"Alpha", "a">>, <<"Beta", "b">> >>
Vals == {"a", "b"}

\* label_class closure
LabelClass(v) == IF is_err(v) THEN "label_class_error" ELSE "label_class"

\* input_class closure of each operation
InputClass(kind, v) ==
    CASE kind = "text_area" ->
            IF is_err(v) THEN "text_class_error" ELSE "text_class"
      [] kind = "radio_buttons" ->
            IF is_err(v) THEN "radio_class_error" ELSE "radio_class"
      [] OTHER ->
            IF is_err(v) THEN "input_class_error" ELSE "input_class"

\* variant: the error element is shown in every state but Valid
ShowWhenNotValid(kind, v) == kind \in ValidatedKinds /\ v # Valid

\* <Show when=move || validation_state.get().is_err()>
ShowWhen(kind, v) == kind \in ValidatedKinds /\ is_err(v)

\* variant: the message is read once, when the error element is mounted
ErrorTextAtMount(view, v) == IF view.errShown THEN view.errText ELSE take_msg(v)

\* <p class=class_error_message>{move || validation_state.get().take_msg()}</p>
ErrorText(view, v) == take_msg(v)

\* the closures that read validation_state, run again after it changed
OnValidation(view, control, v) ==
    IF control.kind \notin ValidatedKinds THEN view
    ELSE [view EXCEPT
            !.labelClass = LabelClass(v),
            !.inputClass = InputClass(control.kind, v),
            !.errText = IF ShowWhen(control.kind, v) THEN ErrorText(view, v) ELSE None,
            !.errShown = ShowWhen(control.kind, v)]

\* variant: an option of a select is marked selected when the value equals
\* its display text
OnValueSelectByDisplay(view, control, val, flag) ==
    CASE control.kind \in {"heading", "submit", "button"} ->
            [view EXCEPT !.text = IF control.getter THEN Some(val) ELSE Some("")]
      [] control.kind = "output" ->
            [view EXCEPT !.text = IF control.getter THEN Some(val) ELSE None]
      [] control.kind = "hidden" ->
            [view EXCEPT !.propValue = IF control.getter THEN Some(val) ELSE None]
      [] control.kind \in TextKinds \cup {"stepper", "slider", "date"} ->
            [view EXCEPT !.propValue = Some(val)]
      [] control.kind = "radio_buttons" ->
            [view EXCEPT !.checkedOptions =
                {Options[i][2] : i \in {j \in DOMAIN Options : val = Options[j][2]}}]
      [] control.kind = "select" ->
            [view EXCEPT !.checkedOptions =
                {Options[i][2] : i \in {j \in DOMAIN Options : val = Options[j][1]}}
                \cup (IF control.blank_option /\ val = "" THEN {""} ELSE {})]
      [] control.kind = "checkbox" ->
            [view EXCEPT !.propChecked = flag]
      [] OTHER -> view

\* the closures that read value_getter, run again after the value changed
OnValue(view, control, val, flag) ==
    CASE control.kind \in {"heading", "submit", "button"} ->
            [view EXCEPT !.text = IF control.getter THEN Some(val) ELSE Some("")]
      [] control.kind = "output" ->
            [view EXCEPT !.text = IF control.getter THEN Some(val) ELSE None]
      [] control.kind = "hidden" ->
            [view EXCEPT !.propValue = IF control.getter THEN Some(val) ELSE None]
      [] control.kind \in TextKinds \cup {"stepper", "slider", "date"} ->
            [view EXCEPT !.propValue = Some(val)]
      [] control.kind = "radio_buttons" ->
            [view EXCEPT !.checkedOptions =
                {Options[i][2] : i \in {j \in DOMAIN Options : val = Options[j][2]}}]
      [] control.kind = "select" ->
            [view EXCEPT !.checkedOptions =
                {Options[i][2] : i \in {j \in DOMAIN Options : val = Options[j][2]}}
                \cup (IF control.blank_option /\ val = "" THEN {""} ELSE {})]
      [] control.kind = "checkbox" ->
            [view EXCEPT !.propChecked = flag]
      [] OTHER -> view

\* control.data.label.clone().unwrap_or(control.data.name.clone())
CheckboxLabel(control) ==
    IF control.label = None THEN Some(control.name) ELSE control.label

\* variant: every kind falls back to the name
LabelTextOrName(control) ==
    IF control.label = None THEN Some(control.name) ELSE control.label

\* the label element's child: {control.data.label.as_ref()}, or for the
\* checkbox {label}
LabelText(control) ==
    IF control.kind = "checkbox" THEN CheckboxLabel(control) ELSE control.label

\* the part of the view! of each operation that no signal changes
Skeleton(control) ==
    IF control.kind \in LabelKinds
    THEN [Node(control.kind) EXCEPT
            !.hasLabel = TRUE,
            !.labelText = LabelText(control),
            !.labelClass = IF control.kind = "checkbox"
                           THEN "checkbox_label" ELSE "label_class"]
    ELSE Node(control.kind)

ParentClass(kind) ==
    CASE kind = "spacer" -> "spacer_parent"
      [] kind = "heading" -> "flew flex-row"
      [] kind = "output" -> "output_parent"
      [] OTHER -> ""

\* variant: output, like hidden, returns its element unwrapped
RenderControlBareOutput(control, val, flag, v) ==
    LET inner == OnValidation(OnValue(Skeleton(control), control, val, flag),
                              control, v)
    IN IF control.kind \in {"hidden", "output"} THEN inner
       ELSE common_component(control.styles, ParentClass(control.kind), inner)

\* FbFormStyle::spacer .. FbFormStyle::date: the view of a control when it
\* is rendered with the current value of its signals; hidden returns its
\* <input> without passing it through common_component
RenderControl(control, val, flag, v) ==
    LET inner == OnValidation(OnValue(Skeleton(control), control, val, flag),
                              control, v)
    IN IF control.kind = "hidden" THEN inner
       ELSE common_component(control.styles, ParentClass(control.kind), inner)

\* the DOM event a text control's update_event registers its handler for
EventOf(update_event) ==
    CASE update_event = "OnFocusout" -> "focusout"
      [] update_event = "OnInput" -> "input"
      [] update_event = "OnChange" -> "change"

\* variant: every element with a value sets it on input, whatever the policy
HandlerOnEveryInput(control, ev) ==
    CASE control.kind = "button" /\ ev = "click" /\ control.action -> "action"
      [] control.kind = "radio_buttons" /\ ev = "input" -> "set_if_checked"
      [] control.kind = "checkbox" /\ ev = "input" -> "set_checked"
      [] control.kind # "spacer" /\ ev = "input" -> "set_value"
      [] OTHER -> "none"

\* variant: select, stepper, slider and date commit on change
HandlerValueOnChange(control, ev) ==
    CASE control.kind \in TextKinds /\ ev = EventOf(control.update_event) -> "set_value"
      [] control.kind \in ValueKinds /\ ev = "change" -> "set_value"
      [] control.kind = "radio_buttons" /\ ev = "input" -> "set_if_checked"
      [] control.kind = "checkbox" /\ ev = "input" -> "set_checked"
      [] control.kind = "button" /\ ev = "click" /\ control.action -> "action"
      [] OTHER -> "none"

\* variant: a radio option's handler sets the value on every input event
HandlerRadioUnguarded(control, ev) ==
    CASE control.kind \in TextKinds /\ ev = EventOf(control.update_event) -> "set_value"
      [] control.kind \in ValueKinds /\ ev = "input" -> "set_value"
      [] control.kind = "radio_buttons" /\ ev = "input" -> "set_value"
      [] control.kind = "checkbox" /\ ev = "input" -> "set_checked"
      [] control.kind = "button" /\ ev = "click" /\ control.action -> "action"
      [] OTHER -> "none"

\* what the handler the operation registers for DOM event ev does
Handler(control, ev) ==
    CASE control.kind \in TextKinds /\ ev = EventOf(control.update_event) -> "set_value"
      [] control.kind \in ValueKinds /\ ev = "input" -> "set_value"
      [] control.kind = "radio_buttons" /\ ev = "input" -> "set_if_checked"
      [] control.kind = "checkbox" /\ ev = "input" -> "set_checked"
      [] control.kind = "button" /\ ev = "click" /\ control.action -> "action"
      [] OTHER -> "none"

\* variant: the group's attributes wrap each child instead of the group
group_spread(g) ==
    [Node("form_group") EXCEPT
        !.children = [i \in DOMAIN g.data |->
                        common_component(g.styles, "group_parent", g.data[i])]]

\* FbFormStyle::group: the composed children in a <div class="form_group
\* form_grid">, wrapped by common_component with the group's own styles
group(g) ==
    common_component(g.styles, "group_parent",
                     [Node("form_group") EXCEPT !.children = g.data])

\* FbFormStyle::custom_component: inner wrapped with the given styles
custom_component(styles, inner) ==
    common_component(styles, "custom_component_parent", inner)

\* FbFormStyle::form_frame: the composed controls in the top-level grid
form_frame(form) == [Node("form_frame") EXCEPT !.children = form.data]

\* the style attribute lists a group is given
GroupStyleChoices == { <<>>, <<Width(4)>>, <<Tooltip("group"), Width(4)>> }

\* the controls a group is composed of
ChildKinds == {"heading", "text_input", "checkbox"}

\* the widths and tooltips a caller attaches
AttrWidths == {3, 6}
AttrTooltips == {"tip", "help"}

\* the style attribute lists a rendered control is given
StyleChoices == { <<>>, <<Width(6), Tooltip("tip")>> }

\* the render data of a control of a kind: ControlRenderData { data, styles }
\* with the fields of data that FbFormStyle reads
ControlsOf(kind) ==
    [ kind         : {kind},
      name         : {"email"},
      label        : IF kind \in LabelKinds THEN {None, Some("Email")} ELSE {None},
      update_event : IF kind \in TextKinds THEN UpdateEvents ELSE {"unset"},
      getter       : IF kind \in BoundKinds THEN {TRUE}
                     ELSE IF kind = "spacer" THEN {FALSE} ELSE BOOLEAN,
      action       : IF kind = "button" THEN BOOLEAN ELSE {FALSE},
      blank_option : IF kind = "select" THEN BOOLEAN ELSE {FALSE},
      styles       : StyleChoices ]

NoControl ==
    [ kind |-> "none", name |-> "", label |-> None, update_event |-> "unset",
      getter |-> FALSE, action |-> FALSE, blank_option |-> FALSE, styles |-> <<>> ]

DomEvents == {"input", "change", "focusout", "click"}

\* before any event has reached the control
NoEvent == [ev |-> "none", target |-> "", checked |-> FALSE]

\* SignalSetter::set on the bound value: the value a following
\* value_getter.get() returns
SignalSet(old, new) == new

\* the kinds whose element holds text the user edits
TypedKinds == TextKinds \cup {"stepper", "slider", "date"}

VARIABLES
    data,       \* the builder's DateData (ControlBuilder.data)
    calls,      \* the setter calls of the chain so far, in order
    built,      \* None while building, Some(data) once the control is added
    control,    \* the render data of the rendered control, NoControl before
    bindings,   \* the binding parameters the style operation was called with
    value,      \* form state: the String value bound to the control
    flag,       \* form state: the bool value bound to a checkbox
    validation, \* form state: the ValidationState of the control
    prevValidation, \* the ValidationState before the last change of it
    view,       \* the rendered view of the control
    events,     \* how many DOM events of each kind the control has received
    setCalls,   \* how many times value_setter.set has been invoked
    actionCalls, \* how many times the button's action has been invoked
    lastSet,    \* the argument of the latest value_setter.set, None before
    lastEvent,  \* the latest DOM event: its kind, target value and checked
    children,   \* the views of a group's controls, composed in insertion order
    childControls, \* the render data each of those views was rendered from
    groupStyles, \* the style attributes attached to the group
    groupView,  \* the view FbFormStyle::group returned, Node("none") before
    attached,   \* the style attributes attached to a control so far, in order
    styledControl, \* the render data rendered with them, NoControl before
    styledView  \* the view the style returned for it

builderVars == <<data, calls, built>>
styleVars ==
    <<control, bindings, value, flag, validation, prevValidation, view, events, setCalls,
      actionCalls, lastSet, lastEvent>>
groupVars == <<children, childControls, groupStyles, groupView>>
attrVars == <<attached, styledControl, styledView>>
vars == <<builderVars, styleVars, groupVars, attrVars>>

(* ------------------------------------------------------------------ *)
(* SpecBuilder: a chain of setter calls on a date builder              *)
(* ------------------------------------------------------------------ *)

BuilderInit ==
    /\ data = DateDataDefault
    /\ calls = <<>>
    /\ built = None

Chaining == built = None /\ Len(calls) < MaxCalls

Call(op, arg) ==
    /\ Chaining
    /\ data' = Apply(data, [op |-> op, arg |-> arg])
    /\ calls' = Append(calls, [op |-> op, arg |-> arg])
    /\ UNCHANGED <<built, styleVars, groupVars, attrVars>>

CallNamed == Chaining /\ \E x \in Strs : Call("named", x)
CallLabeled == Chaining /\ \E x \in Strs : Call("labeled", x)
CallTitle == Chaining /\ \E x \in Strs : Call("title", x)
CallShowToday == Chaining /\ \E b \in BOOLEAN : Call("show_today", b)
CallShowButtons == Chaining /\ \E b \in BOOLEAN : Call("show_buttons", b)
CallFormat == Chaining /\ \E x \in Strs : Call("format", x)
CallMin == Chaining /\ \E x \in Strs : Call("min", x)
CallMinSignal == Chaining /\ \E s \in Sigs : Call("min_signal", s)
CallMax == Chaining /\ \E x \in Strs : Call("max", x)
CallMaxSignal == Chaining /\ \E s \in Sigs : Call("max_signal", s)

\* FormBuilder::date: the builder closure has run, the control is added
BuildDate ==
    /\ built = None
    /\ built' = Some(data)
    /\ UNCHANGED <<data, calls, styleVars, groupVars, attrVars>>

NextBuilder ==
    \/ CallNamed
    \/ CallLabeled
    \/ CallTitle
    \/ CallShowToday
    \/ CallShowButtons
    \/ CallFormat
    \/ CallMin
    \/ CallMinSignal
    \/ CallMax
    \/ CallMaxSignal
    \/ BuildDate

(* ------------------------------------------------------------------ *)
(* SpecStyle: one control rendered by FbFormStyle                      *)
(* ------------------------------------------------------------------ *)

StyleInit ==
    /\ control = NoControl
    /\ bindings = {}
    /\ value = ""
    /\ flag = FALSE
    /\ validation = Pending
    /\ prevValidation = Pending
    /\ view = Node("none")
    /\ events = [e \in DomEvents |-> 0]
    /\ setCalls = 0
    /\ actionCalls = 0
    /\ lastSet = None
    /\ lastEvent = NoEvent

Rendered == control.kind # "none"

EventCount == events["input"] + events["change"] + events["focusout"] + events["click"]

\* the form renders the control: the style operation of its kind is called
\* with the bindings of its signature and the current signal values
Render ==
    /\ ~Rendered
    /\ \E kind \in Kinds : \E c \in ControlsOf(kind) :
        /\ control' = c
        /\ bindings' = Signature(kind)
        /\ view' = RenderControl(c, value, flag, validation)
    /\ UNCHANGED <<value, flag, validation, prevValidation, events, setCalls, actionCalls,
                   lastSet, lastEvent, builderVars, groupVars, attrVars>>

\* the validation collaborator publishes a new state; the closures that read
\* the validation signal run again
SetValidation ==
    /\ \E v \in ValidationStates :
        /\ v # validation
        /\ validation' = v
        /\ prevValidation' = validation
        /\ view' = IF Rendered THEN OnValidation(view, control, v) ELSE view
    /\ UNCHANGED <<control, bindings, value, flag, events, setCalls, actionCalls,
                   lastSet, lastEvent,
                   builderVars, groupVars, attrVars>>

\* a DOM event ev reaches the control's element. For an input event, t is the
\* text the user left in the element (or the value of the option chosen) and
\* c the checked state the element reports.
Dispatch(ev, t, c) ==
    /\ Rendered
    /\ EventCount < MaxEvents
    /\ events' = [events EXCEPT ![ev] = @ + 1]
    /\ LET h == Handler(control, ev)
           edited == IF ev = "input" /\ control.kind \in TypedKinds
                     THEN [view EXCEPT !.propValue = Some(t)]
                     ELSE view
           target == IF ev = "input" THEN t
                     ELSE IF edited.propValue = None THEN "" ELSE edited.propValue[1]
       IN /\ lastEvent' = [ev |-> ev, target |-> target, checked |-> c]
          /\ CASE h = "set_value" ->
                 /\ "value_setter" \in bindings
                 /\ value' = SignalSet(value, target)
                 /\ lastSet' = Some(target)
                 /\ setCalls' = setCalls + 1
                 /\ view' = OnValue(edited, control, value', flag)
                 /\ UNCHANGED <<flag, actionCalls>>
            [] h = "set_if_checked" ->
                 /\ "value_setter" \in bindings
                 /\ value' = IF c THEN SignalSet(value, t) ELSE value
                 /\ lastSet' = IF c THEN Some(t) ELSE lastSet
                 /\ setCalls' = IF c THEN setCalls + 1 ELSE setCalls
                 /\ view' = IF c THEN OnValue(edited, control, value', flag) ELSE edited
                 /\ UNCHANGED <<flag, actionCalls>>
            [] h = "set_checked" ->
                 /\ "value_setter" \in bindings
                 /\ flag' = SignalSet(flag, c)
                 /\ lastSet' = Some(c)
                 /\ setCalls' = setCalls + 1
                 /\ view' = OnValue(edited, control, value, flag')
                 /\ UNCHANGED <<value, actionCalls>>
            [] h = "action" ->
                 /\ actionCalls' = actionCalls + 1
                 /\ view' = edited
                 /\ UNCHANGED <<value, flag, setCalls, lastSet>>
            [] OTHER ->
                 /\ view' = edited
                 /\ UNCHANGED <<value, flag, setCalls, actionCalls, lastSet>>
    /\ UNCHANGED <<control, bindings, validation, prevValidation, builderVars,
                   groupVars, attrVars>>

InputEvent == Rendered /\ \E t \in Vals : \E c \in BOOLEAN : Dispatch("input", t, c)
ChangeEvent == Rendered /\ Dispatch("change", "", FALSE)
FocusoutEvent == Rendered /\ Dispatch("focusout", "", FALSE)
ClickEvent == Rendered /\ Dispatch("click", "", FALSE)

NextStyle ==
    \/ Render
    \/ SetValidation
    \/ InputEvent
    \/ ChangeEvent
    \/ FocusoutEvent
    \/ ClickEvent

(* ------------------------------------------------------------------ *)
(* SpecGroup: a group of controls rendered by FbFormStyle::group       *)
(* ------------------------------------------------------------------ *)

GroupInit ==
    /\ children = <<>>
    /\ childControls = <<>>
    /\ groupStyles = <<>>
    /\ groupView = Node("none")

GroupRendered == groupView.tag # "none"

\* the form renders the next control of the group and appends its view
AddChild ==
    /\ ~GroupRendered
    /\ Len(children) < MaxChildren
    /\ \E kind \in ChildKinds : \E c \in ControlsOf(kind) :
        /\ children' = Append(children, RenderControl(c, "", FALSE, Pending))
        /\ childControls' = Append(childControls, c)
    /\ UNCHANGED <<groupStyles, groupView, builderVars, styleVars, attrVars>>

\* the composed children are passed through the style's group operation
RenderGroup ==
    /\ ~GroupRendered
    /\ \E st \in GroupStyleChoices :
        /\ groupStyles' = st
        /\ groupView' = group([data |-> children, styles |-> st])
    /\ UNCHANGED <<children, childControls, builderVars, styleVars, attrVars>>

NextGroup ==
    \/ AddChild
    \/ RenderGroup

(* ------------------------------------------------------------------ *)
(* SpecAttrs: style attributes attached to a control, then rendered    *)
(* ------------------------------------------------------------------ *)

AttrInit ==
    /\ attached = <<>>
    /\ styledControl = NoControl
    /\ styledView = Node("none")

Styled == styledControl.kind # "none"

\* the caller attaches FbStyleAttr::Width(w) to the control
AttachWidth ==
    /\ ~Styled
    /\ Len(attached) < MaxAttrs
    /\ \E w \in AttrWidths : attached' = Append(attached, Width(w))
    /\ UNCHANGED <<styledControl, styledView, builderVars, styleVars, groupVars>>

\* the caller attaches FbStyleAttr::Tooltip(t) to the control
AttachTooltip ==
    /\ ~Styled
    /\ Len(attached) < MaxAttrs
    /\ \E t \in AttrTooltips : attached' = Append(attached, Tooltip(t))
    /\ UNCHANGED <<styledControl, styledView, builderVars, styleVars, groupVars>>

\* a control of some kind carrying the attached attributes is rendered
RenderStyled ==
    /\ ~Styled
    /\ \E kind \in Kinds : \E c \in ControlsOf(kind) :
        /\ c.styles = <<>>
        /\ styledControl' = [c EXCEPT !.styles = attached]
        /\ styledView' = RenderControl([c EXCEPT !.styles = attached], "", FALSE,
                                       Pending)
    /\ UNCHANGED <<attached, builderVars, styleVars, groupVars>>

\* a group carrying the attached attributes is rendered
RenderStyledGroup ==
    /\ ~Styled
    /\ styledControl' = [NoControl EXCEPT !.kind = "group", !.styles = attached]
    /\ styledView' = group([data |-> <<>>, styles |-> attached])
    /\ UNCHANGED <<attached, builderVars, styleVars, groupVars>>

\* a custom component carrying the attached attributes is wrapped
RenderStyledCustom ==
    /\ ~Styled
    /\ styledControl' = [NoControl EXCEPT !.kind = "custom", !.styles = attached]
    /\ styledView' = custom_component(attached, Node("custom"))
    /\ UNCHANGED <<attached, builderVars, styleVars, groupVars>>

NextAttrs ==
    \/ AttachWidth
    \/ AttachTooltip
    \/ RenderStyled
    \/ RenderStyledGroup
    \/ RenderStyledCustom

Init == BuilderInit /\ StyleInit /\ GroupInit /\ AttrInit

SpecBuilder == Init /\ [][NextBuilder]_vars

SpecStyle == Init /\ [][NextStyle]_vars

SpecGroup == Init /\ [][NextGroup]_vars

SpecAttrs == Init /\ [][NextAttrs]_vars

(* ------------------------------------------------------------------ *)
(* Properties of the date builder (SpecBuilder)                        *)
(* ------------------------------------------------------------------ *)

\* the permutations of 1..n
Perms(n) == {p \in [1..n -> 1..n] : \A i, j \in 1..n : p[i] = p[j] => i = j}

\* the chain with its calls reordered by p
Reordered(p) == [i \in 1..Len(calls) |-> calls[p[i]]]

\* every setter of the chain is called at most once
EachAtMostOnce ==
    \A i, j \in 1..Len(calls) : calls[i].op = calls[j].op => i = j

StaticSetters ==
    {"named", "labeled", "title", "show_today", "show_buttons", "format",
     "min", "max"}

\* C1: the configuration a chain of setter calls (named, labeled, title,
\* show_today, show_buttons, format, min, max, each at most once) builds is
\* the configuration every reordering of the same calls builds.
C1_OrderIndependent ==
    (EachAtMostOnce /\ \A i \in 1..Len(calls) : calls[i].op \in StaticSetters)
    => \A p \in Perms(Len(calls)) :
          ApplyAll(DateDataDefault, Reordered(p)) = data

\* the position of the last call of the chain whose setter is in ops, or 0
LastCall(ops) ==
    LET at == {i \in 1..Len(calls) : calls[i].op \in ops}
    IN IF at = {} THEN 0 ELSE CHOOSE i \in at : \A j \in at : j <= i

\* the bound the last call among static_op and signal_op gave
LastBound(static_op, signal_op) ==
    LET i == LastCall({static_op, signal_op})
    IN IF i = 0 THEN None
       ELSE IF calls[i].op = static_op THEN Some(<<"Static", calls[i].arg>>)
       ELSE Some(<<"Dynamic", calls[i].arg>>)

\* C2: min holds exactly the value of the last call among min and
\* min_signal, as Static(value) or Dynamic(signal), and max that of the last
\* call among max and max_signal; so neither depends on the other's calls.
C2_LastBoundWins ==
    /\ data.min = LastBound("min", "min_signal")
    /\ data.max = LastBound("max", "max_signal")

\* a static min was replaced by a later min_signal, after a max call
C2_Witness ==
    /\ Len(calls) = 3
    /\ calls[1].op = "min"
    /\ calls[2].op = "max"
    /\ calls[3].op = "min_signal"
    /\ data.min = Some(<<"Dynamic", calls[3].arg>>)
    /\ data.max = Some(<<"Static", calls[2].arg>>)

\* C3: a date control built after no setter but named has DateData's default
\* in every optional field, and as its name the argument of the last named
\* call, or "" when named was never called; and whatever the chain was, the
\* control can be built.
C3_DefaultWhenUnset ==
    /\ built = None => ENABLED BuildDate
    /\ (built # None /\ \A i \in 1..Len(calls) : calls[i].op = "named")
       => /\ built[1].label = None
          /\ built[1].title = None
          /\ built[1].format = None
          /\ built[1].min = None
          /\ built[1].max = None
          /\ built[1].show_today = None
          /\ built[1].show_buttons = None
          /\ built[1].name =
                IF calls = <<>> THEN "" ELSE calls[Len(calls)].arg
          /\ calls = <<>> => built[1] = DateDataDefault

\* a control built after named alone
C3_Witness ==
    /\ built # None
    /\ Len(calls) = 1
    /\ calls[1].op = "named"
    /\ built[1].name = calls[1].arg

(* ------------------------------------------------------------------ *)
(* Properties of a rendered control (SpecStyle)                        *)
(* ------------------------------------------------------------------ *)

\* C4: for a rendered text input or text area the value setter has been
\* invoked exactly as many times as the control has received events of the
\* kind its update policy names: events of the other kinds invoke nothing.
C4_SetterPerPolicyEvent ==
    (Rendered /\ control.kind \in {"text_input", "text_area"})
    => setCalls =
         CASE control.update_event = "OnInput" -> events["input"]
           [] control.update_event = "OnChange" -> events["change"]
           [] control.update_event = "OnFocusout" -> events["focusout"]

\* a text input with OnFocusout: two input events, then the one focus loss
\* that invoked the setter
C4_Witness ==
    /\ control.kind = "text_input"
    /\ control.update_event = "OnFocusout"
    /\ events["input"] = 2
    /\ events["focusout"] = 1
    /\ setCalls = 1
    /\ value \in Vals

\* C5: a rendered text input, text area, radio group, select, stepper, slider
\* or date shows its error-message element exactly when the validation state
\* is Invalid, and neither when it is Valid nor when it is Pending.
C5_ErrorIffInvalid ==
    (Rendered /\ control.kind \in {"text_input", "text_area", "radio_buttons",
                                   "select", "stepper", "slider", "date"})
    => (view.errShown <=> validation[1] = "Invalid")

\* a date whose validation went from Invalid back to Pending
C5_Witness ==
    /\ control.kind = "date"
    /\ prevValidation[1] = "Invalid"
    /\ validation = Pending
    /\ ~view.errShown

\* the class of the input element of a kind, without and with an error
PlainInputClass(kind) ==
    CASE kind = "text_area" -> "text_class"
      [] kind = "radio_buttons" -> "radio_class"
      [] OTHER -> "input_class"

ErrorInputClass(kind) ==
    CASE kind = "text_area" -> "text_class_error"
      [] kind = "radio_buttons" -> "radio_class_error"
      [] OTHER -> "input_class_error"

\* C6: whatever the validation states before, the displayed error text and
\* the error classes of label and input follow the current state alone:
\* while Invalid(m) the text is m and both classes are the error classes,
\* otherwise no text is displayed and both classes are the plain ones.
C6_ErrorFollowsCurrentState ==
    (Rendered /\ control.kind \in {"text_input", "text_area", "radio_buttons",
                                   "select", "stepper", "slider", "date"})
    => IF validation[1] = "Invalid"
       THEN /\ view.errText = <<validation[2]>>
            /\ view.labelClass = "label_class_error"
            /\ view.inputClass = ErrorInputClass(control.kind)
       ELSE /\ view.errText = <<>>
            /\ view.labelClass = "label_class"
            /\ view.inputClass = PlainInputClass(control.kind)

\* a text input that went from Invalid("required") to Invalid("too long")
C6_Witness ==
    /\ control.kind = "text_input"
    /\ prevValidation = <<"Invalid", "required">>
    /\ validation = <<"Invalid", "too long">>
    /\ view.errText = <<"too long">>

ThreeBindings == {"value_getter", "value_setter", "validation_state"}

\* C7 as stated: every bound kind, the checkbox included, is rendered with
\* value getter, value setter and validation signal.
C7_EveryBoundKindThree ==
    (Rendered /\ control.kind \in {"text_input", "text_area", "radio_buttons",
                                   "select", "checkbox", "stepper", "slider",
                                   "date"})
    => bindings = ThreeBindings

\* C7 as amended: every bound kind but the checkbox is rendered with exactly
\* value getter, value setter and validation signal; the checkbox with
\* exactly value getter and value setter.
C7_BoundKindBindings ==
    /\ (Rendered /\ control.kind \in {"text_input", "text_area", "radio_buttons",
                                      "select", "stepper", "slider", "date"})
       => bindings = ThreeBindings
    /\ (Rendered /\ control.kind = "checkbox")
       => bindings = {"value_getter", "value_setter"}

\* a rendered date, after an input event went through its setter
C7_Witness ==
    /\ control.kind = "date"
    /\ bindings = ThreeBindings
    /\ setCalls = 1

\* C8: a heading, output, button, submit, spacer or hidden is rendered with
\* at most a value getter; no event on it invokes the setter or changes the
\* form's value, and it shows no validation error in any validation state.
C8_DisplayOnlyNeverWrites ==
    (Rendered /\ control.kind \in {"heading", "output", "button", "submit",
                                   "spacer", "hidden"})
    => /\ bindings \subseteq {"value_getter"}
       /\ setCalls = 0
       /\ value = ""
       /\ flag = FALSE
       /\ ~view.errShown
       /\ view.errText = <<>>

\* a button with an action, clicked and sent an input event while the
\* validation state is Invalid
C8_Witness ==
    /\ control.kind = "button"
    /\ control.action
    /\ events["click"] = 1
    /\ events["input"] = 1
    /\ actionCalls = 1
    /\ validation[1] = "Invalid"

\* C9 as stated: for every kind with a label field, the label text rendered
\* is the configuration's label: none when absent, that text when present.
C9_LabelIffPresent ==
    (Rendered /\ control.kind \in {"text_input", "text_area", "radio_buttons",
                                   "select", "checkbox", "stepper", "slider",
                                   "date"})
    => view.labelText = control.label

\* C9 as amended: that holds for every kind with a label field but the
\* checkbox; a checkbox shows its label when present and its name when the
\* label is absent.
C9_LabelOrCheckboxName ==
    /\ (Rendered /\ control.kind \in {"text_input", "text_area", "radio_buttons",
                                      "select", "stepper", "slider", "date"})
       => view.labelText = control.label
    /\ (Rendered /\ control.kind = "checkbox")
       => view.labelText =
            IF control.label = <<>> THEN <<control.name>> ELSE control.label

\* a checkbox without a label, toggled once
C9_Witness ==
    /\ control.kind = "checkbox"
    /\ control.label = <<>>
    /\ view.labelText = <<"email">>
    /\ setCalls = 1

(* ------------------------------------------------------------------ *)
(* Properties of a rendered group (SpecGroup)                          *)
(* ------------------------------------------------------------------ *)

\* the value of the last attribute of a kind in a list, if any
LastAttr(styles, kind) ==
    LET at == {i \in DOMAIN styles : styles[i][1] = kind}
    IN IF at = {} THEN <<>>
       ELSE <<styles[CHOOSE i \in at : \A j \in at : j <= i][2]>>

\* C10: the group's view is one container carrying the group's own width and
\* tooltip around the composed children; the children are the views composed
\* before, in the same order, each with the container its own attributes gave.
C10_GroupAttrsOnContainer ==
    GroupRendered
    => /\ groupView.tag = "form_group"
       /\ groupView.container =
            << [ class |-> "group_parent",
                 width |-> IF LastAttr(groupStyles, "Width") = <<>> THEN 12
                           ELSE LastAttr(groupStyles, "Width")[1],
                 title |-> LastAttr(groupStyles, "Tooltip") ] >>
       /\ groupView.children = children
       /\ \A i \in DOMAIN children :
            /\ children[i].tag = childControls[i].kind
            /\ children[i].container # <<>>
            /\ children[i].container[1].width =
                 IF LastAttr(childControls[i].styles, "Width") = <<>> THEN 12
                 ELSE LastAttr(childControls[i].styles, "Width")[1]
            /\ children[i].container[1].title =
                 LastAttr(childControls[i].styles, "Tooltip")

\* a group of width 4 around a child of width 6 and a child of width 12
C10_Witness ==
    /\ GroupRendered
    /\ Len(children) = 2
    /\ groupStyles = << <<"Tooltip", "group">>, <<"Width", 4>> >>
    /\ groupView.container[1].width = 4
    /\ groupView.children[1].container[1].width = 6
    /\ groupView.children[2].container[1].width = 12

(* ------------------------------------------------------------------ *)
(* Frame of the date builder's setters (SpecBuilder)                   *)
(* ------------------------------------------------------------------ *)

\* the DateData field a setter is named for
FieldOf(op) ==
    CASE op = "named" -> "name"
      [] op = "labeled" -> "label"
      [] op = "title" -> "title"
      [] op = "show_today" -> "show_today"
      [] op = "show_buttons" -> "show_buttons"
      [] op = "format" -> "format"
      [] op \in {"min", "min_signal"} -> "min"
      [] op \in {"max", "max_signal"} -> "max"

\* C14: a setter call leaves every DateData field but the one it is named
\* for as it was; show_today leaves show_buttons, and show_buttons leaves
\* show_today.
C14_SetterChangesOwnFieldOnly ==
    [][ calls' # calls
        => \A f \in DOMAIN data \ {FieldOf(calls'[Len(calls')].op)} :
              data'[f] = data[f] ]_vars

(* ------------------------------------------------------------------ *)
(* The value shown by a rendered editable control (SpecStyle)          *)
(* ------------------------------------------------------------------ *)

\* the control's element shows the value the getter returns: its value
\* property is that text, the options marked are those with that value, the
\* box is checked as the bool says
DisplaysGetter ==
    CASE control.kind \in {"text_input", "text_area", "stepper", "slider", "date"} ->
            view.propValue = <<value>>
      [] control.kind = "radio_buttons" ->
            view.checkedOptions = {o \in {"a", "b"} : o = value}
      [] control.kind = "select" ->
            view.checkedOptions =
                {o \in {"a", "b"} \cup (IF control.blank_option THEN {""} ELSE {}) :
                    o = value}
      [] control.kind = "checkbox" ->
            view.propChecked = flag
      [] OTHER -> TRUE

\* the getter returns the argument of the latest setter invocation
GetterIsLastSet ==
    lastSet # <<>>
    => IF control.kind = "checkbox" THEN flag = lastSet[1] ELSE value = lastSet[1]

Editable ==
    control.kind \in {"text_input", "text_area", "radio_buttons", "select",
                      "checkbox", "stepper", "slider", "date"}

\* C11 as stated: the getter of an editable control returns the value last
\* given to the setter, and the control displays the getter's value at all
\* times.
C11_DisplayAlwaysGetter ==
    (Rendered /\ Editable) => (GetterIsLastSet /\ DisplaysGetter)

\* a text control that commits on change or on focus loss
DeferredText ==
    /\ control.kind \in {"text_input", "text_area"}
    /\ control.update_event \in {"OnChange", "OnFocusout"}

\* C11 as amended: the step in which a handler invokes the setter with V
\* ends with the getter returning V and the control displaying V; the getter
\* keeps returning the latest V; and every editable control but a text input
\* or text area with OnChange or OnFocusout displays the getter's value at
\* all times (those two display the text typed since the last commit).
C11_SetThenGetAndDisplay ==
    /\ []((Rendered /\ Editable)
            => (GetterIsLastSet /\ (DeferredText \/ DisplaysGetter)))
    /\ [][ setCalls' # setCalls
           => (lastSet' # <<>> /\ GetterIsLastSet' /\ DisplaysGetter') ]_vars

\* a text input with OnFocusout whose typed text was committed by the focus
\* loss
C11_Witness ==
    /\ control.kind = "text_input"
    /\ control.update_event = "OnFocusout"
    /\ lastEvent.ev = "focusout"
    /\ events["input"] = 1
    /\ setCalls = 1
    /\ lastSet = <<"a">>
    /\ value = "a"
    /\ view.propValue = <<"a">>

(* ------------------------------------------------------------------ *)
(* Update policy of the editable kinds (SpecStyle)                     *)
(* ------------------------------------------------------------------ *)

Policies == {"OnInput", "OnChange", "OnFocusout"}

\* how many events of the kind the control's policy selects have reached it
PolicyEvents ==
    CASE control.update_event = "OnInput" -> events["input"]
      [] control.update_event = "OnChange" -> events["change"]
      [] control.update_event = "OnFocusout" -> events["focusout"]
      [] OTHER -> 0

\* C12 as stated: an editable control whose setter has fired has one of the
\* three policies, and the setter has fired only on events of the kind that
\* policy selects.
C12_EveryEditableFiresOnPolicy ==
    (Rendered /\ Editable /\ setCalls > 0)
    => (control.update_event \in Policies /\ setCalls <= PolicyEvents)

\* C12 as amended: a text input or text area has exactly one policy and its
\* setter has fired once per event of the kind that policy selects; a date,
\* select, stepper, slider or checkbox, for which the style consults no
\* policy, has fired its setter once per input event, and a radio group at
\* most once per input event; change and focus-loss events fire nothing on
\* those six kinds.
C12_PolicyForTextInputElseOnInput ==
    /\ (Rendered /\ control.kind \in {"text_input", "text_area"})
       => (control.update_event \in Policies /\ setCalls = PolicyEvents)
    /\ (Rendered /\ control.kind \in {"date", "select", "stepper", "slider",
                                      "checkbox"})
       => setCalls = events["input"]
    /\ (Rendered /\ control.kind = "radio_buttons")
       => setCalls <= events["input"]

\* a date that received a change, a focus loss and one input event
C12_Witness ==
    /\ control.kind = "date"
    /\ events["change"] = 1
    /\ events["focusout"] = 1
    /\ events["input"] = 1
    /\ setCalls = 1

(* ------------------------------------------------------------------ *)
(* Width and tooltip of a rendered container (SpecAttrs)               *)
(* ------------------------------------------------------------------ *)

IsWidthAttr(a) == a[1] = "Width"
IsTooltipAttr(a) == a[1] = "Tooltip"

\* the width a list of attributes asks for: that of its last Width, else 12
AskedWidth(styles) ==
    IF LastAttr(styles, "Width") = <<>> THEN 12 ELSE LastAttr(styles, "Width")[1]

\* the tooltip a list of attributes asks for: that of its last Tooltip
AskedTooltip(styles) == LastAttr(styles, "Tooltip")

\* C13: the container common_component builds has width 12 when the list
\* holds no Width and else the value of its last Width, and has no tooltip
\* when the list holds no Tooltip and else the text of its last Tooltip; the
\* width is the one the list's Width attributes alone give, and the tooltip
\* the one its Tooltip attributes alone give.
C13_LastWidthAndTooltip ==
    (Styled /\ styledView.container # <<>>)
    => LET c == styledView.container[1]
           widths == SelectSeq(attached, IsWidthAttr)
           tooltips == SelectSeq(attached, IsTooltipAttr)
       IN /\ c.width = AskedWidth(attached)
          /\ c.title = AskedTooltip(attached)
          /\ c.width = common_component(widths, "", Node("")).container[1].width
          /\ c.title = common_component(tooltips, "", Node("")).container[1].title
          /\ common_component(widths, "", Node("")).container[1].title = <<>>
          /\ common_component(tooltips, "", Node("")).container[1].width = 12

\* a custom component wrapped with Width(3), Tooltip("tip"), Width(6)
C13_Witness ==
    /\ styledControl.kind = "custom"
    /\ attached = << <<"Width", 3>>, <<"Tooltip", "tip">>, <<"Width", 6>> >>
    /\ styledView.container[1].width = 6
    /\ styledView.container[1].title = <<"tip">>

\* the container of the rendered view carries what the attached attributes
\* ask for
Threaded ==
    /\ styledView.container # <<>>
    /\ styledView.container[1].width = AskedWidth(styledControl.styles)
    /\ styledView.container[1].title = AskedTooltip(styledControl.styles)

\* C16 as stated: for each of spacer, heading, submit, button, output,
\* hidden, text input, text area, radio group, select, checkbox, stepper,
\* slider, date and group, the rendered container's width and tooltip are
\* those of the control's attached attributes.
C16_EveryKindThreaded ==
    (Styled /\ styledControl.kind \in
        {"spacer", "heading", "submit", "button", "output", "hidden",
         "text_input", "text_area", "radio_buttons", "select", "checkbox",
         "stepper", "slider", "date", "group"})
    => (styledControl.styles = attached /\ Threaded)

\* C16 as amended: that holds for each of those kinds but hidden; a hidden
\* control is rendered as its bare input, with no container, whatever
\* attributes are attached.
C16_EveryKindButHiddenThreaded ==
    /\ (Styled /\ styledControl.kind \in
          {"spacer", "heading", "submit", "button", "output",
           "text_input", "text_area", "radio_buttons", "select", "checkbox",
           "stepper", "slider", "date", "group"})
       => (styledControl.styles = attached /\ Threaded)
    /\ (Styled /\ styledControl.kind = "hidden")
       => (styledControl.styles = attached /\ styledView.container = <<>>)

\* a hidden control with a width and a tooltip attached
C16_Witness ==
    /\ styledControl.kind = "hidden"
    /\ attached = << <<"Width", 6>>, <<"Tooltip", "help">> >>
    /\ styledView.container = <<>>
    /\ styledView.tag = "hidden"

(* ------------------------------------------------------------------ *)
(* Radio group (SpecStyle)                                             *)
(* ------------------------------------------------------------------ *)

OptionValues == {Options[i][2] : i \in DOMAIN Options}

RadioRendered == Rendered /\ control.kind = "radio_buttons"

\* C15: in a radio group the value setter runs only on an input event whose
\* target option reports checked, and is given that option's value, so a
\* value written through the group is one of the option values; an option
\* is shown checked exactly when the getter's value equals its value, so at
\* most one option is checked.
C15_RadioSetsCheckedOptionOnly ==
    /\ [](RadioRendered
          => /\ view.checkedOptions = {o \in OptionValues : o = value}
             /\ Cardinality(view.checkedOptions) <= 1
             /\ (setCalls > 0 => (value \in OptionValues /\ lastSet = Some(value))))
    /\ [][ (RadioRendered /\ setCalls' # setCalls)
           => /\ lastEvent'.ev = "input"
              /\ lastEvent'.checked
              /\ lastSet' = Some(lastEvent'.target)
              /\ value' = lastEvent'.target
              /\ value' \in OptionValues ]_vars

\* the setter ran for option "a", then an input event on option "b" that
\* reported unchecked left the value alone
C15_Witness ==
    /\ RadioRendered
    /\ setCalls = 1
    /\ events["input"] = 2
    /\ lastEvent = [ev |-> "input", target |-> "b", checked |-> FALSE]
    /\ value = "a"
    /\ view.checkedOptions = {"a"}

====
